---- MODULE Spec2Model ----
(***************************************************************************)
(* bottle-neck: class-based handlers for bottle.py.                        *)
(*                                                                         *)
(* The module models bottle_neck/cbv.py: the singleton metaclass           *)
(* (HandlerMeta), the declaration decorators (route_method,                *)
(* plugin_method), the per-handler plugin maps (add_plugin), route         *)
(* expansion (_router_helper, _build_routes) and registration on a host    *)
(* application (register_app); and bottle_neck/routing.py: Route and       *)
(* Router (register_handler, mount).                                       *)
(*                                                                         *)
(* A Python string is a sequence of one-character strings, so that         *)
(* lower(), upper(), join(), format() and replace() are computed as        *)
(* Python computes them.  A dict is the sequence of its (key, value)       *)
(* pairs in insertion order, which is the order Python iterates it in.     *)
(***************************************************************************)
EXTENDS Integers, Sequences, FiniteSets, TLC

VARIABLES
    handlers,        \* handler type -> its class object, or NoClass
    plugins,         \* handler type -> its opt-in plugin dict
    global_plugins,  \* handler type -> its global plugin dict
    routes,          \* host application -> the registrations made on it
    error,           \* the exception the last operation raised, or NoError
    output,          \* side effects observed during the last invocation
    add_log,         \* history: the (cls, scope, callables) of each add_plugin
    n_regs,          \* history: the number of register_app calls made
    instances,       \* HandlerMeta._instances: handler type -> instance
    objects,         \* every handler instance ever constructed
    calls,           \* history: the constructions made and what they returned
    pc,              \* thread -> its position inside HandlerMeta.__call__
    local,           \* thread -> the locals of its HandlerMeta.__call__
    router_routes,   \* Router._routes, in an order the set may iterate in
    base_class,      \* the class attributes of BaseHandler that are rebound
    n_mounts,        \* history: the number of Router.mount calls made
    mounted,         \* history: app -> Router._routes at the last mount on it
    cls_cache,       \* plugin class -> the value its own __cache holds
    page             \* the arguments of a paginator call and what it returned

vars == <<handlers, plugins, global_plugins, routes, error, output, add_log,
          n_regs, instances, objects, calls, pc, local, router_routes,
          base_class, n_mounts, mounted, cls_cache, page>>

----------------------------------------------------------------------------
(* Python strings *)

UpperCase == <<"A","B","C","D","E","F","G","H","I","J","K","L","M",
               "N","O","P","Q","R","S","T","U","V","W","X","Y","Z">>

LowerCase == <<"a","b","c","d","e","f","g","h","i","j","k","l","m",
               "n","o","p","q","r","s","t","u","v","w","x","y","z">>

\* The characters the model uses, in code point order.
CodePoints == <<"+", ".", "/">> \o <<"0","1","2","3","4","5","6","7","8","9">>
              \o <<":", "<", ">">> \o UpperCase \o <<"_">> \o LowerCase

ord(c) == CHOOSE i \in 1..Len(CodePoints) : CodePoints[i] = c

\* Python's None, where a string may stand: no string holds this element.
None == <<"<None>">>

lower_char(c) ==
    IF \E i \in 1..26 : UpperCase[i] = c
    THEN LowerCase[CHOOSE i \in 1..26 : UpperCase[i] = c]
    ELSE c

upper_char(c) ==
    IF \E i \in 1..26 : LowerCase[i] = c
    THEN UpperCase[CHOOSE i \in 1..26 : LowerCase[i] = c]
    ELSE c

lower(s) == [i \in 1..Len(s) |-> lower_char(s[i])]

upper(s) == [i \in 1..Len(s) |-> upper_char(s[i])]

\* s < t for Python strings (code point order, a proper prefix first).
RECURSIVE str_less(_, _)
str_less(s, t) ==
    IF t = <<>> THEN FALSE
    ELSE IF s = <<>> THEN TRUE
    ELSE IF s[1] = t[1] THEN str_less(Tail(s), Tail(t))
    ELSE ord(s[1]) < ord(t[1])

\* s.replace(old, new) for a non-empty old: left to right, not overlapping.
RECURSIVE replace(_, _, _)
replace(s, old, new) ==
    IF Len(s) < Len(old) THEN s
    ELSE IF SubSeq(s, 1, Len(old)) = old
         THEN new \o replace(SubSeq(s, Len(old) + 1, Len(s)), old, new)
         ELSE <<s[1]>> \o replace(Tail(s), old, new)

\* sep.join(parts)
RECURSIVE join(_, _)
join(sep, parts) ==
    IF parts = <<>> THEN <<>>
    ELSE IF Len(parts) = 1 THEN parts[1]
    ELSE parts[1] \o sep \o join(sep, Tail(parts))

\* Python truthiness of an optional string: None and '' are false.
truthy(s) == s # None /\ s # <<>>

----------------------------------------------------------------------------
(* String literals *)

s_get == <<"g","e","t">>
s_put == <<"p","u","t">>
s_post == <<"p","o","s","t">>
s_delete == <<"d","e","l","e","t","e">>
s_patch == <<"p","a","t","c","h">>
s_options == <<"o","p","t","i","o","n","s">>
s_version == <<"v","e","r","s","i","o","n">>
s_http_method == <<"h","t","t","p","_","m","e","t","h","o","d">>
s_url_extra_part == <<"u","r","l","_","e","x","t","r","a","_","p","a","r","t">>

\* cbv.py: DEFAULT_ROUTES
DEFAULT_ROUTES == {s_get, s_put, s_post, s_delete, s_patch, s_options}

----------------------------------------------------------------------------
(* Route expansion *)

\* The defaults a declared parameter may carry: inspect.Parameter.empty for
\* a parameter without default, None, or some other value.
empty == "Parameter.empty"
DefaultNone == "None"

\* A variant of the test below: the parameter has a default at all.
has_default(default) == default # empty

\* A parameter's default `is not None`.
is_not_None(default) == default # DefaultNone

\* BaseHandler._router_helper: method_args is the ordered mapping of
\* inspect.signature, here the sequence of [name, default].
fixed_params_of(method_args) ==
    LET kept == SelectSeq(method_args, LAMBDA p : is_not_None(p.default))
    IN  [i \in 1..Len(kept) |-> kept[i].name]

nullable_params_of(method_args) ==
    LET fixed == fixed_params_of(method_args)
        kept == SelectSeq(method_args,
                    LAMBDA p : \A i \in 1..Len(fixed) : fixed[i] # p.name)
    IN  [i \in 1..Len(kept) |-> kept[i].name]

\* `combinations += [combinations[-1] + [param] for param in nullable_params]`:
\* the comprehension is evaluated before the list is extended, so
\* combinations[-1] is the one list it holds then.
router_helper(method_args) ==
    LET fixed_params == fixed_params_of(method_args)
        nullable_params == nullable_params_of(method_args)
        combinations == <<fixed_params>>
    IN  combinations \o
        [i \in 1..Len(nullable_params) |->
            combinations[Len(combinations)] \o <<nullable_params[i]>>]

\* A variant of _build_routes below that leaves the base path out of the
\* pattern of an operation without parameters.
build_routes_relative(base_endpoint, method_args, url_extra_part) ==
    LET prefix0 == IF truthy(url_extra_part)
                   THEN <<"/">> \o url_extra_part ELSE <<>>
        prefix == prefix0 \o (IF method_args # <<>> THEN <<"/", ":">> ELSE <<>>)
        endpoint == base_endpoint \o prefix
        combos == router_helper(method_args)
    IN  IF method_args = <<>> THEN <<prefix>>
        ELSE [i \in 1..Len(combos) |->
                replace(endpoint \o join(<<"/", ":">>, combos[i]),
                        <<"/", "/">>, <<"/">>)]

\* BaseHandler._build_routes
build_routes(base_endpoint, method_args, url_extra_part) ==
    LET prefix0 == IF truthy(url_extra_part)
                   THEN <<"/">> \o url_extra_part ELSE <<>>
        prefix == prefix0 \o (IF method_args # <<>> THEN <<"/", ":">> ELSE <<>>)
        endpoint == base_endpoint \o prefix
        combos == router_helper(method_args)
    IN  IF method_args = <<>> THEN <<endpoint>>
        ELSE [i \in 1..Len(combos) |->
                replace(endpoint \o join(<<"/", ":">>, combos[i]),
                        <<"/", "/">>, <<"/">>)]

----------------------------------------------------------------------------
(* Exceptions *)

NoError == [type |-> "none", args |-> <<>>, op |-> "none"]

raise(type, args, op) == [type |-> type, args |-> args, op |-> op]

----------------------------------------------------------------------------
(* Declaring a handler type: the class body and HandlerMeta.__new__ *)

\* A function object as `def name(self, *params)` leaves it.  attrs is its
\* __dict__: the names of the attributes set on it, in insertion order.
function_object(name, params) ==
    [name |-> name, params |-> params, attrs |-> <<>>,
     http_method |-> None, url_extra_part |-> None, bound |-> FALSE]

\* hasattr(callable_obj, attr) for the attributes this package sets.
hasattr(callable_obj, attr) ==
    \/ \E i \in 1..Len(callable_obj.attrs) : callable_obj.attrs[i] = attr
    \/ /\ callable_obj.http_method # None
       /\ attr \in {s_http_method, s_url_extra_part}

\* plugin_method(*plugin_names)(callable_obj)
RECURSIVE plugin_method(_, _)
plugin_method(callable_obj, plugin_names) ==
    IF plugin_names = <<>> THEN callable_obj
    ELSE plugin_method(
            IF hasattr(callable_obj, plugin_names[1]) THEN callable_obj
            ELSE [callable_obj EXCEPT !.attrs = Append(@, plugin_names[1])],
            Tail(plugin_names))

\* A variant of the test below that also lets the verb HEAD through.
valid_http_method_or_head(method_name) ==
    lower(method_name) \in DEFAULT_ROUTES \cup {<<"h","e","a","d">>}

\* The test of route_method's wrapper: the verb is a supported one.
valid_http_method(method_name) == lower(method_name) \in DEFAULT_ROUTES

\* route_method(method_name, extra_part)(callable_obj): the exception raised
\* and the classmethod returned.
route_method(callable_obj, method_name, extra_part) ==
    IF ~valid_http_method(method_name)
    THEN [raised |-> raise("HandlerHTTPMethodError", <<method_name>>,
                           "route_method"),
          obj |-> callable_obj]
    ELSE [raised |-> NoError,
          obj |-> [callable_obj EXCEPT
                     !.http_method = upper(method_name),
                     !.url_extra_part =
                         IF extra_part THEN callable_obj.name ELSE None,
                     !.bound = TRUE]]

\* One `def` of a class body with its decorators: plugin_method below
\* route_method, as in examples.py.  decl.verb = None: no route_method.
declare_method(decl) ==
    LET tagged == plugin_method(function_object(decl.name, decl.params),
                                decl.tags)
    IN  IF decl.verb = None
        THEN [raised |-> NoError, obj |-> tagged]
        ELSE route_method(tagged, decl.verb, decl.extra_part)

\* HandlerMeta.__new__: the attributes named after a verb become classmethods.
meta_new(attr) ==
    IF lower(attr.name) \in DEFAULT_ROUTES
    THEN [attr EXCEPT !.bound = TRUE] ELSE attr

NoClass == [declared |-> FALSE, base_endpoint |-> <<>>,
            cors_enabled |-> FALSE, own_plugins |-> FALSE, init_args |-> 0,
            members |-> <<>>]

\* Executing `class H(BaseHandler): <body>`: the first exception a decorator
\* raises leaves the class statement, and no class object is made.
declare_class(body) ==
    LET results == [i \in 1..Len(body.decls) |-> declare_method(body.decls[i])]
        failed == {i \in 1..Len(results) : results[i].raised # NoError}
    IN  IF failed # {}
        THEN [raised |-> results[CHOOSE i \in failed :
                                   \A j \in failed : i <= j].raised,
              cls |-> NoClass]
        ELSE [raised |-> NoError,
              cls |-> [declared |-> TRUE,
                       base_endpoint |-> body.base_endpoint,
                       cors_enabled |-> body.cors_enabled,
                       own_plugins |-> body.own_plugins,
                       init_args |-> body.init_args,
                       members |-> [i \in 1..Len(results) |->
                                       meta_new(results[i].obj)]]]

----------------------------------------------------------------------------
(* Plugin maps *)

\* A variant of dict_set below in which a new key goes first.
dict_set_front(repo, key, value) ==
    IF \E i \in 1..Len(repo) : repo[i].key = key
    THEN [i \in 1..Len(repo) |->
            IF repo[i].key = key THEN [key |-> key, value |-> value]
            ELSE repo[i]]
    ELSE <<[key |-> key, value |-> value]>> \o repo

\* repo[key] = value on a dict: a new key goes last, a known key keeps its
\* place and takes the new value.
dict_set(repo, key, value) ==
    IF \E i \in 1..Len(repo) : repo[i].key = key
    THEN [i \in 1..Len(repo) |->
            IF repo[i].key = key THEN [key |-> key, value |-> value]
            ELSE repo[i]]
    ELSE Append(repo, [key |-> key, value |-> value])

dict_get(repo, key) ==
    repo[CHOOSE i \in 1..Len(repo) : repo[i].key = key].value

dict_keys(repo) == [i \in 1..Len(repo) |-> repo[i].key]

\* The character classes of the regular expressions of func_name.
is_upper(c) == \E i \in 1..Len(UpperCase) : UpperCase[i] = c
is_lower(c) == \E i \in 1..Len(LowerCase) : LowerCase[i] = c
is_digit(c) == c \in {"0","1","2","3","4","5","6","7","8","9"}

\* The end of the run of lower-case letters that starts at s[i].
RECURSIVE lower_run_end(_, _)
lower_run_end(s, i) ==
    IF i < Len(s) /\ is_lower(s[i + 1]) THEN lower_run_end(s, i + 1) ELSE i

\* re.sub('(.)([A-Z][a-z]+)', r'\1_\2', s): the matches are taken from left
\* to right and do not overlap.
RECURSIVE sub_capitalized(_)
sub_capitalized(s) ==
    IF Len(s) < 3 THEN s
    ELSE IF is_upper(s[2]) /\ is_lower(s[3])
    THEN <<s[1], "_">> \o SubSeq(s, 2, lower_run_end(s, 3))
         \o sub_capitalized(SubSeq(s, lower_run_end(s, 3) + 1, Len(s)))
    ELSE <<s[1]>> \o sub_capitalized(Tail(s))

\* re.sub('([a-z0-9])([A-Z])', r'\1_\2', s)
RECURSIVE sub_camel(_)
sub_camel(s) ==
    IF Len(s) < 2 THEN s
    ELSE IF (is_lower(s[1]) \/ is_digit(s[1])) /\ is_upper(s[2])
    THEN <<s[1], "_", s[2]>> \o sub_camel(SubSeq(s, 3, Len(s)))
    ELSE <<s[1]>> \o sub_camel(Tail(s))

\* The body of BaseHandlerPlugin.func_name, applied to a class of the name
\* given.
func_name(cls_name) == lower(sub_camel(sub_capitalized(cls_name)))

\* A plugin class: a class derived from BaseHandlerPlugin, directly or
\* through the class `base`.
BaseHandlerPlugin == "BaseHandlerPlugin"

plugin_class(cls_id, cls_name, base) ==
    [fn |-> cls_id, kind |-> "class", name |-> cls_name, func_name |-> None,
     raises |-> FALSE, raise_args |-> <<>>, base |-> base]

\* No __cache attribute is set on the class itself.
NoCache == <<"<unset>">>

\* Attribute lookup of __cache on a class: the value set on the class or on
\* the nearest of its bases that has one; NoCache when none has.
RECURSIVE getattr_cache(_, _, _)
getattr_cache(cache, bases, cls_id) ==
    IF cache[cls_id] # NoCache THEN cache[cls_id]
    ELSE IF cls_id = BaseHandlerPlugin THEN NoCache
    ELSE getattr_cache(cache, bases, bases[cls_id])

\* cached_classproperty's getter, reading cls.func_name: the value found
\* through cls.__cache, or else the value computed, which is then stored in a
\* __cache set on cls.
cached_classproperty(cache, bases, cls) ==
    IF getattr_cache(cache, bases, cls.fn) # NoCache
    THEN [value |-> getattr_cache(cache, bases, cls.fn), cache |-> cache]
    ELSE [value |-> func_name(cls.name),
          cache |-> [cache EXCEPT ![cls.fn] = func_name(cls.name)]]

\* The name add_plugin files a function under: its __name__.
plugin_key(plugin_callable) == plugin_callable.name

\* BaseHandler.add_plugin: the loop over plugin_callables.  A plugin class
\* is filed under its func_name, which is read through the caches; the
\* result is the dict and the caches after the loop.
RECURSIVE add_plugin(_, _, _, _)
add_plugin(repo, cache, bases, plugin_callables) ==
    IF plugin_callables = <<>> THEN [repo |-> repo, cache |-> cache]
    ELSE IF plugin_callables[1].kind = "class"
    THEN add_plugin(dict_set(repo,
                        cached_classproperty(cache, bases,
                                             plugin_callables[1]).value,
                        plugin_callables[1]),
                    cached_classproperty(cache, bases,
                                         plugin_callables[1]).cache,
                    bases, Tail(plugin_callables))
    ELSE add_plugin(dict_set(repo, plugin_key(plugin_callables[1]),
                             plugin_callables[1]),
                    cache, bases, Tail(plugin_callables))

----------------------------------------------------------------------------
(* Registration on a host application *)

BaseHandler == "BaseHandler"

\* inspect.getmembers returns the attributes sorted by name.
RECURSIVE sorted_members(_)
sorted_members(members) ==
    IF members = <<>> THEN <<>>
    ELSE LET i == CHOOSE i \in 1..Len(members) :
                     \A j \in 1..Len(members) :
                        j # i => str_less(members[i].name, members[j].name)
         IN  <<members[i]>> \o
             sorted_members(SubSeq(members, 1, i - 1) \o
                            SubSeq(members, i + 1, Len(members)))

\* BaseHandler._check_http_member
check_http_member(member) ==
    \/ lower(member.name) \in DEFAULT_ROUTES
    \/ hasattr(member, s_http_method)

\* BaseHandler._get_http_members: the bound (class)methods that pass the
\* check.  BaseHandler's own classmethods never pass it and are left out.
get_http_members(cls) ==
    SelectSeq(sorted_members(cls.members),
              LAMBDA m : m.bound /\ check_http_member(m))

\* plugin(func_callable): the wrapped callable, or the TypeError of a plugin
\* that cannot be called with the one argument.
call_plugin(plugin, func_callable, scope) ==
    IF plugin.raises
    THEN [raised |-> raise("TypeError", plugin.raise_args, "register_app"),
          func |-> func_callable]
    ELSE [raised |-> NoError,
          func |-> [func_callable EXCEPT !.wrappers =
                       Append(@, [plugin |-> plugin, scope |-> scope])]]

\* `for plugin in names: func_callable = repo[plugin](func_callable)`
RECURSIVE apply_plugins(_, _, _, _)
apply_plugins(repo, names, func_callable, scope) ==
    IF names = <<>> THEN [raised |-> NoError, func |-> func_callable]
    ELSE LET r == call_plugin(dict_get(repo, names[1]), func_callable, scope)
         IN  IF r.raised # NoError THEN r
             ELSE apply_plugins(repo, Tail(names), r.func, scope)

\* A variant of applied_plugins below: the tags are looked up in the opt-in
\* map as it is when the class is declared, which holds nothing yet.
applied_plugins_at_declaration(optin, member) == <<>>

\* applied_plugins = [pl for pl in cls.plugins if hasattr(func_callable, pl)]
applied_plugins(optin, member) ==
    SelectSeq(dict_keys(optin), LAMBDA pl : hasattr(member, pl))

\* The opt-in loop of register_app, with its `except TypeError`.
apply_optin(optin, member, func_callable) ==
    LET r == apply_plugins(optin, applied_plugins(optin, member),
                           func_callable, "plugins")
    IN  IF r.raised.type = "TypeError"
        THEN [r EXCEPT !.raised = raise("HandlerPluginError",
                                        <<r.raised.args>>, "register_app")]
        ELSE r

\* The global loop of register_app.
apply_global(glob, func_callable) ==
    apply_plugins(glob, dict_keys(glob), func_callable, "global_plugins")

\* A variant of the pipeline below: global plugins, then opt-in ones.
apply_pipeline_global_first(optin, glob, member, func_callable) ==
    LET r == apply_global(glob, func_callable)
    IN  IF r.raised # NoError THEN r ELSE apply_optin(optin, member, r.func)

\* The plugin pipeline of one operation: opt-in plugins, then global ones.
apply_pipeline(optin, glob, member, func_callable) ==
    LET r == apply_optin(optin, member, func_callable)
    IN  IF r.raised # NoError THEN r ELSE apply_global(glob, r.func)

\* router(entrypoint, method=[...])(callback)
registration(rule, method, callback) ==
    [rule |-> rule, method |-> method, callback |-> callback]

\* The body of register_app's loop for one member: the registrations it
\* makes, and the exception that ends it.
register_member(cls_id, cls, optin, glob, member) ==
    LET tagged == hasattr(member, s_http_method)
        http_method == IF tagged THEN member.http_method ELSE member.name
        url_extra_part == IF tagged THEN member.url_extra_part ELSE None
        func0 == [kind |-> "method", cls |-> cls_id, name |-> member.name,
                  wrappers |-> <<>>, http_methods |-> <<>>]
        r == apply_pipeline(optin, glob, member, func0)
        entrypoints == build_routes(cls.base_endpoint, member.params,
                                    url_extra_part)
    IN  IF r.raised # NoError THEN [raised |-> r.raised, regs |-> <<>>]
        ELSE [raised |-> NoError,
              regs |-> [i \in 1..Len(entrypoints) |->
                          registration(entrypoints[i], <<upper(http_method)>>,
                                       r.func)]]

RECURSIVE register_members(_, _, _, _, _)
register_members(cls_id, cls, optin, glob, members) ==
    IF members = <<>> THEN [raised |-> NoError, regs |-> <<>>]
    ELSE LET r == register_member(cls_id, cls, optin, glob, members[1])
         IN  IF r.raised # NoError THEN r
             ELSE LET rest == register_members(cls_id, cls, optin, glob,
                                               Tail(members))
                  IN  [raised |-> rest.raised, regs |-> r.regs \o rest.regs]

s_OPTIONS == <<"O","P","T","I","O","N","S">>
s_url_wildcard == <<"/","<","u","r","l",":","r","e",":",".","+",">">>

\* A variant of options_routes below that leaves out the wildcard route.
options_routes_base_only(cls_id, cls, members) ==
    <<registration(cls.base_endpoint, <<s_OPTIONS>>,
                   [kind |-> "options", cls |-> cls_id,
                    name |-> <<"<","l","a","m","b","d","a",">">>,
                    wrappers |-> <<>>,
                    http_methods |-> [i \in 1..Len(members) |->
                                         members[i].name]])>>

\* The two OPTIONS routes of a handler type with cors_enabled.
options_routes(cls_id, cls, members) ==
    LET options_data == [kind |-> "options", cls |-> cls_id,
                         name |-> <<"<","l","a","m","b","d","a",">">>,
                         wrappers |-> <<>>,
                         http_methods |-> [i \in 1..Len(members) |->
                                              members[i].name]]
    IN  <<registration(cls.base_endpoint, <<s_OPTIONS>>, options_data),
          registration(replace(cls.base_endpoint \o s_url_wildcard,
                               <<"/", "/">>, <<"/">>),
                       <<s_OPTIONS>>, options_data)>>

\* BaseHandler.register_app: the calls made to the host's route(), in
\* order, and the exception raised.  The calls made before an exception
\* stay on the host.
register_app(cls_id, cls, optin, glob) ==
    IF cls_id = BaseHandler
    THEN [raised |-> raise("HandlerError", <<>>, "register_app"),
          regs |-> <<>>]
    ELSE LET members == get_http_members(cls)
             r == register_members(cls_id, cls, optin, glob, members)
         IN  IF r.raised # NoError THEN r
             ELSE IF cls.cors_enabled
                  THEN [raised |-> NoError,
                        regs |-> r.regs \o options_routes(cls_id, cls, members)]
                  ELSE r

\* What stands in an invocation's trace for the body of the operation.
HandlerBody == [fn |-> "<operation>"]

\* A variant of invoke below in which the wrappers act in the order they
\* were applied, innermost first.
invoke_inner_first(callback) ==
    callback.wrappers \o <<[plugin |-> HandlerBody, scope |-> callback.kind]>>

\* Calling a registered callback.  Each plugin wrapper acts and then calls
\* what it wraps (examples.py: print, then handler(*args, **kwargs)), so
\* the outermost wrapper, the last one applied, acts first.
invoke(callback) ==
    [i \in 1..Len(callback.wrappers) |->
        callback.wrappers[Len(callback.wrappers) + 1 - i]]
    \o <<[plugin |-> HandlerBody, scope |-> callback.kind]>>

\* The function objects register_app builds are new on every call: the
\* closure a plugin returns and the two lambdas of the OPTIONS routes.  A
\* method no plugin wraps is handed over as the bound method, and two bound
\* methods of one function and class are equal.  id tells the callables of
\* one call from those of another; 0 is for callables that exist already.
new_object(callback, serial) ==
    [kind |-> callback.kind, cls |-> callback.cls, name |-> callback.name,
     wrappers |-> callback.wrappers, http_methods |-> callback.http_methods,
     id |-> IF callback.kind = "options" \/ callback.wrappers # <<>>
            THEN serial ELSE 0]

new_objects(regs, serial) ==
    [i \in 1..Len(regs) |->
        [regs[i] EXCEPT !.callback = new_object(@, serial)]]

----------------------------------------------------------------------------
(* routing.py: Route and Router *)

\* A Python object handed to register_handler: type is its Python type as
\* the isinstance tests of wrap_callable see it.
python_object(type, name) == [type |-> type, name |-> name]

\* Route.__init__.  The trailing commas of `self.uri = uri,` and
\* `self.methods = methods,` make each attribute a tuple of one element.
\* A Route defines no __eq__ or __hash__: id is its identity.
Route(uri, methods, callable_obj, id) ==
    [kind |-> "route", cls |-> "none", id |-> id,
     uri |-> <<uri>>, methods |-> <<methods>>, callable_obj |-> callable_obj]

\* The handler class itself, as wrap_callable returns it.
class_entry(cls_id) ==
    [kind |-> "class", cls |-> cls_id, id |-> 0,
     uri |-> <<>>, methods |-> <<>>,
     callable_obj |-> python_object("class", cls_id)]

NoEntry == [kind |-> "none", cls |-> "none", id |-> 0,
            uri |-> <<>>, methods |-> <<>>,
            callable_obj |-> python_object("none", "none")]

\* A variant of wrap_callable below without the test for a function: what
\* is no handler class is wrapped in a Route.
wrap_callable_untyped(uri, methods, callable_obj, id) ==
    IF callable_obj.type = "class"
    THEN [raised |-> NoError, obj |-> class_entry(callable_obj.name),
          sets |-> callable_obj.name]
    ELSE [raised |-> NoError, obj |-> Route(uri, methods, callable_obj, id),
          sets |-> "none"]

\* Route.wrap_callable: the exception raised, the object returned, and the
\* class whose base_endpoint (and is_valid) it sets.
wrap_callable(uri, methods, callable_obj, id) ==
    IF callable_obj.type = "class"
    THEN [raised |-> NoError, obj |-> class_entry(callable_obj.name),
          sets |-> callable_obj.name]
    ELSE IF callable_obj.type = "function"
    THEN [raised |-> NoError, obj |-> Route(uri, methods, callable_obj, id),
          sets |-> "none"]
    ELSE [raised |-> raise("RouteError", <<"Invalid handler type.">>,
                           "register_handler"),
          obj |-> NoEntry, sets |-> "none"]

\* bool(t) of a tuple.
tuple_truthy(t) == Len(t) > 0

\* router_obj.is_valid: the attribute wrap_callable has set to True on a
\* handler class, the property of a Route.  A function is true.
is_valid(router_obj) ==
    IF router_obj.kind = "class" THEN TRUE
    ELSE tuple_truthy(router_obj.uri) /\ tuple_truthy(router_obj.methods)

\* A variant of set_add below that keeps an object as often as it is added.
list_append(routes_set, router_obj) == Append(routes_set, router_obj)

\* self._routes.add(router_obj): an object already in the set is not added.
set_add(routes_set, router_obj) ==
    IF \E i \in 1..Len(routes_set) : routes_set[i] = router_obj
    THEN routes_set ELSE Append(routes_set, router_obj)

\* Route.register_app: app.route(self.uri, methods=self.methods)(callable).
\* The verbs go under the keyword `methods`; no `method` is passed.
route_register_app(route) ==
    [rule |-> route.uri, methods |-> route.methods,
     callback |-> [kind |-> "function", cls |-> "none",
                   name |-> <<route.callable_obj.name>>, wrappers |-> <<>>,
                   http_methods |-> <<>>, id |-> 0]]

----------------------------------------------------------------------------
(* webapi.py: paginator *)

DecimalDigits == <<"0","1","2","3","4","5","6","7","8","9">>

\* str(n) of an int that is not negative, as '{}'.format(n) writes it.
RECURSIVE str_int(_)
str_int(n) ==
    IF n < 10 THEN <<DecimalDigits[n + 1]>>
    ELSE str_int(n \div 10) \o <<DecimalDigits[(n % 10) + 1]>>

s_limit_eq == <<"&","l","i","m","i","t","=">>
s_offset_eq == <<"&","o","f","f","s","e","t","=">>

\* page_nav_tpl.format(limit, offset) with the default template
\* '&limit={}&offset={}'
page_nav_tpl_format(limit, offset) ==
    s_limit_eq \o str_int(limit) \o s_offset_eq \o str_int(offset)

\* int(math.ceil(record_count / limit)), for ints small enough for the
\* quotient to be exact
total_pages_of(record_count, limit) == (record_count + limit - 1) \div limit

\* A variant of next_cond below with < for <=.
next_cond_strict(limit, offset, record_count) == limit + offset < record_count

next_cond(limit, offset, record_count) == limit + offset <= record_count

prev_cond(limit, offset) == offset >= limit

\* paginator(limit, offset, record_count, base_uri): the mapping returned.
paginator(limit, offset, record_count, base_uri) ==
    [total_count |-> record_count,
     total_pages |-> total_pages_of(record_count, limit),
     next_page |-> IF next_cond(limit, offset, record_count)
                   THEN base_uri \o page_nav_tpl_format(limit, offset + limit)
                   ELSE None,
     prev_page |-> IF prev_cond(limit, offset)
                   THEN base_uri \o page_nav_tpl_format(limit, offset - limit)
                   ELSE None]

----------------------------------------------------------------------------
(* HandlerMeta.__call__: the singleton cache *)

NoInstance == 0

\* A variant of the test below that never finds the instance.
in_cache_never(cache, cls) == FALSE

\* `cls not in cls._instances` is false: the cache holds an instance of cls.
in_cache(cache, cls) == cache[cls] # NoInstance

\* super(HandlerMeta, cls).__call__(*args): a new object of cls, or the
\* TypeError of arguments its constructor does not take.
construct(cls_id, cls, args, heap) ==
    IF Len(args) # cls.init_args
    THEN [raised |-> raise("TypeError", <<"takes no arguments">>, "__call__"),
          obj |-> NoInstance]
    ELSE [raised |-> NoError, obj |-> Cardinality(heap) + 1]

\* The object construct() makes, as the heap holds it.
object(id, cls_id, args) == [id |-> id, cls |-> cls_id, args |-> args]

----------------------------------------------------------------------------
(* Bounds and inputs *)

MaxParams == 3      \* declared parameters of a handler method
MaxAdds == 2        \* add_plugin calls
MaxRegs == 1        \* register_app calls
MaxCalls == 3       \* constructions of handler instances
NumThreads == 2     \* threads constructing handler instances
MaxHandlers == 2    \* register_handler calls on the Router
MaxMounts == 2      \* mount calls on the Router
MaxLimit == 4       \* the limit of a page
MaxOffset == 9      \* the offset of a page
MaxCount == 12      \* the record_count of a collection

Threads == 1..NumThreads

\* The argument tuples a handler type is constructed with.
ConstructArgs == {<<>>, <<"x">>}

\* Handler types without operations: `class H(BaseHandler): pass`, and one
\* whose __init__ takes an argument.
SingletonBodies ==
    {[base_endpoint |-> <<"/">>, cors_enabled |-> TRUE, own_plugins |-> FALSE,
      init_args |-> n, decls |-> <<>>] : n \in {0, 1}}

HandlerTypes == {"ModelHandler", "UserHandler"}
PluginOwners == HandlerTypes \cup {BaseHandler}
Apps == {"app"}

s_uid == <<"u","i","d">>
s_pk == <<"p","k">>
s_api == <<"/","a","p","i">>
s_resource == <<"/","r","e","s","o","u","r","c","e">>
s_json_body == <<"j","s","o","n","_","b","o","d","y">>
s_log_plugin == <<"l","o","g","_","p","l","u","g","i","n">>
s_print_plugin == <<"p","r","i","n","t","_","p","l","u","g","i","n">>
s_GET == <<"G","E","T">>

Digits == <<"1","2","3","4","5","6","7","8","9">>

\* The i-th declared parameter's name: uid, p2, p3, ...
ParamName(i) == IF i = 1 THEN s_uid ELSE <<"p", Digits[i]>>

Defaults == {empty, DefaultNone, "0"}

\* The parameter lists of at most MaxParams parameters; as Python requires
\* of positional parameters, those without default come first.
ParamLists ==
    UNION {{[i \in 1..n |-> [name |-> ParamName(i), default |-> d[i]]] :
              d \in {f \in [1..n -> Defaults] :
                       \A i, j \in 1..n :
                          (i < j /\ f[j] = empty) => f[i] = empty}} :
           n \in 0..MaxParams}

BaseEndpoints == {<<"/">>, s_resource, s_api \o <<"/">>}

\* The handler types whose routes are expanded: one operation, named after
\* its verb (example.py: get(self, uid=None)) or tagged with route_method
\* and extra_part (examples.py: version).
RouteBodies ==
    {[base_endpoint |-> b, cors_enabled |-> TRUE, own_plugins |-> FALSE,
      init_args |-> 0,
      decls |-> <<[name |-> IF x THEN s_version ELSE s_get, params |-> ps,
                   verb |-> IF x THEN s_GET ELSE None, extra_part |-> x,
                   tags |-> <<>>]>>] :
       b \in BaseEndpoints, ps \in ParamLists, x \in BOOLEAN}

\* examples.py: the plugins, and a second function named json_body that
\* takes two arguments, so that calling it with the handler alone raises.
function_plugin(fn, name, raises) ==
    [fn |-> fn, kind |-> "function", name |-> name, func_name |-> None,
     raises |-> raises,
     raise_args |-> IF raises THEN <<"missing 1 required argument">>
                    ELSE <<>>,
     base |-> "none"]

json_body == function_plugin("json_body", s_json_body, FALSE)
log_plugin == function_plugin("log_plugin", s_log_plugin, FALSE)
print_plugin == function_plugin("print_plugin", s_print_plugin, FALSE)
json_body_schema == function_plugin("json_body(handler, schema)",
                                    s_json_body, TRUE)

PluginCallables == {json_body, log_plugin, print_plugin, json_body_schema}

\* test_handlers.py: the plugin class MockPlugin, and a plugin class derived
\* from it.
s_MockPlugin == <<"M","o","c","k","P","l","u","g","i","n">>
s_StrictMockPlugin == <<"S","t","r","i","c","t">> \o s_MockPlugin
s_BaseHandlerPlugin == <<"B","a","s","e","H","a","n","d","l","e","r",
                         "P","l","u","g","i","n">>

MockPlugin == plugin_class("MockPlugin", s_MockPlugin, BaseHandlerPlugin)
StrictMockPlugin ==
    plugin_class("StrictMockPlugin", s_StrictMockPlugin, "MockPlugin")
BaseHandlerPluginClass ==
    plugin_class(BaseHandlerPlugin, s_BaseHandlerPlugin, "object")

PluginClasses == {BaseHandlerPluginClass, MockPlugin, StrictMockPlugin}
PluginClassIds == {c.fn : c \in PluginClasses}

\* plugin class -> the class it is derived from
PluginBases == [c \in PluginClassIds |->
                  (CHOOSE p \in PluginClasses : p.fn = c).base]

\* The lists of plugin classes and functions handed to add_plugin.
ClassPluginLists ==
    {<<MockPlugin>>, <<StrictMockPlugin>>, <<MockPlugin, StrictMockPlugin>>,
     <<StrictMockPlugin, MockPlugin>>, <<log_plugin>>}

\* The lists handed to add_plugin: one plugin, or examples.py's pair.
PluginLists == {<<p>> : p \in PluginCallables}
               \cup {<<json_body, log_plugin>>}

TagLists == {<<s_json_body, s_log_plugin>>, <<s_log_plugin, s_json_body>>,
             <<s_json_body>>}

\* s.capitalize() of a lower-case word.
capitalize(s) == [i \in 1..Len(s) |-> IF i = 1 THEN upper_char(s[i]) ELSE s[i]]

\* The verb names handed to route_method: every supported verb in upper
\* case, lower case and capitalized, and names that are no verb
\* (test_handlers.py: PORT).
VerbNames ==
    UNION {{upper(w), w, capitalize(w)} : w \in DEFAULT_ROUTES}
    \cup {<<"P","O","R","T">>, <<"p","o","r","t">>, <<"G","E">>,
          <<"G","E","T","S">>, <<"H","E","A","D">>, <<>>}

s_fn == <<"f","n">>
s_mock == <<"/","m","o","c","k">>

\* test_handlers.py: a class whose method fn is tagged with route_method.
VerbBodies ==
    {[base_endpoint |-> s_mock, cors_enabled |-> FALSE, own_plugins |-> FALSE,
      init_args |-> 0,
      decls |-> <<[name |-> s_fn, params |-> <<>>, verb |-> v,
                   extra_part |-> TRUE, tags |-> <<>>]>>] :
       v \in VerbNames}

\* examples.py: ModelHandler, with the tags of get drawn from TagLists.
ModelBodies ==
    {[base_endpoint |-> s_api, cors_enabled |-> TRUE, own_plugins |-> FALSE,
      init_args |-> 0,
      decls |-> <<[name |-> s_get, params |-> <<[name |-> s_pk,
                                                  default |-> empty]>>,
                   verb |-> None, extra_part |-> FALSE, tags |-> t],
                  [name |-> s_post, params |-> <<>>,
                   verb |-> None, extra_part |-> FALSE, tags |-> <<>>],
                  [name |-> s_version, params |-> <<>>,
                   verb |-> s_GET, extra_part |-> TRUE,
                   tags |-> <<s_log_plugin>>]>>] :
       t \in TagLists}

\* A plugin function that happens to be named http_method, the name of the
\* attribute route_method sets on the callables it tags.
http_method_plugin == function_plugin("http_method", s_http_method, FALSE)

\* The lists handed to add_plugin where ownership and tagging are examined.
OwnerPluginLists == {<<log_plugin>>, <<http_method_plugin>>}

\* examples.py: ModelHandler with get tagged log_plugin and version tagged
\* by route_method alone; the class body assigns its own plugins and
\* global_plugins dicts, or inherits those of BaseHandler.
OwnerBodies ==
    {[base_endpoint |-> s_api, cors_enabled |-> FALSE, own_plugins |-> own,
      init_args |-> 0,
      decls |-> <<[name |-> s_get, params |-> <<[name |-> s_pk,
                                                  default |-> empty]>>,
                   verb |-> None, extra_part |-> FALSE,
                   tags |-> <<s_log_plugin>>],
                  [name |-> s_post, params |-> <<>>,
                   verb |-> None, extra_part |-> FALSE, tags |-> <<>>],
                  [name |-> s_version, params |-> <<>>,
                   verb |-> s_GET, extra_part |-> TRUE, tags |-> <<>>]>>] :
       own \in BOOLEAN}

s_mock_id == <<"m","o","c","k","_","i","d">>
s_mock_plugin == <<"m","o","c","k","_","p","l","u","g","i","n">>
s_PATCH == <<"P","A","T","C","H">>
s_POST == <<"P","O","S","T">>
s_home == <<"/","h","o","m","e">>
s_index == <<"/","i","n","d","e","x">>
s_api2 == <<"/","a","p","i","2">>

\* test_handlers.py: MockHandler as the test declares it, MockHandler
\* without cors_enabled, and MockHandler with version tagged with PATCH.
MockBodies ==
    {[base_endpoint |-> s_mock, cors_enabled |-> cv[1], own_plugins |-> FALSE,
      init_args |-> 0,
      decls |-> <<[name |-> s_get, params |-> <<[name |-> s_mock_id,
                                                  default |-> empty]>>,
                   verb |-> None, extra_part |-> FALSE, tags |-> <<>>],
                  [name |-> s_version, params |-> <<>>,
                   verb |-> cv[2], extra_part |-> TRUE,
                   tags |-> <<s_mock_plugin>>]>>] :
       cv \in {<<TRUE, s_GET>>, <<FALSE, s_GET>>, <<TRUE, s_PATCH>>}}

\* examples.py: the function handlers; test_routing.py: the string that is
\* no handler; and the handler classes.
home == python_object("function", "home")
index == python_object("function", "index")
not_a_handler == python_object("str", "handler")
handler_class(h) == python_object("class", h)

\* The calls of register_handler(callable_obj, entrypoint, methods);
\* methods defaults to ('GET',).
RegisterCalls ==
    {[callable_obj |-> home, entrypoint |-> s_home, methods |-> <<s_GET>>],
     [callable_obj |-> index, entrypoint |-> s_index, methods |-> <<s_POST>>],
     [callable_obj |-> home, entrypoint |-> <<>>, methods |-> <<s_GET>>],
     [callable_obj |-> home, entrypoint |-> s_home, methods |-> <<>>],
     [callable_obj |-> not_a_handler, entrypoint |-> <<"/">>,
      methods |-> <<s_GET>>]}
    \cup {[callable_obj |-> handler_class(h), entrypoint |-> s_api2,
            methods |-> <<s_GET>>] : h \in {"ModelHandler", BaseHandler}}
    \cup {[callable_obj |-> handler_class("ModelHandler"),
           entrypoint |-> s_mock, methods |-> <<s_GET>>]}

s_r == <<"/","r">>

\* The calls of paginator: limit is positive, offset and record_count are
\* not negative.
PaginatorCalls ==
    [limit : 1..MaxLimit, offset : 0..MaxOffset, record_count : 0..MaxCount,
     base_uri : {s_r}, returned : {FALSE},
     result : {[total_count |-> 0, total_pages |-> 0, next_page |-> None,
                prev_page |-> None]}]

\* No call of paginator.
NoPage == [limit |-> 1, offset |-> 0, record_count |-> 0, base_uri |-> <<>>,
           returned |-> FALSE,
           result |-> [total_count |-> 0, total_pages |-> 0,
                       next_page |-> None, prev_page |-> None]]

----------------------------------------------------------------------------
(* State *)

NoCall == [cls |-> "none", args |-> <<>>, obj |-> NoInstance,
           result |-> NoInstance]

InitState ==
    /\ handlers = [h \in HandlerTypes |-> NoClass]
    /\ plugins = [o \in PluginOwners |-> <<>>]
    /\ global_plugins = [o \in PluginOwners |-> <<>>]
    /\ routes = [a \in Apps |-> <<>>]
    /\ error = NoError
    /\ output = <<>>
    /\ add_log = <<>>
    /\ n_regs = 0
    /\ instances = [h \in HandlerTypes |-> NoInstance]
    /\ objects = {}
    /\ calls = <<>>
    /\ pc = [t \in Threads |-> "idle"]
    /\ local = [t \in Threads |-> NoCall]
    /\ router_routes = <<>>
    /\ base_class = [base_endpoint |-> <<"/">>]
    /\ n_mounts = 0
    /\ mounted = [a \in Apps |-> <<NoEntry>>]
    /\ cls_cache = [c \in PluginClassIds |-> NoCache]

Init == InitState /\ page = NoPage

\* A call of paginator is about to be made with the arguments in page.
InitPaginator == InitState /\ page \in PaginatorCalls

\* The class whose `plugins` and `global_plugins` attributes a handler type
\* reads: its own when its body assigns them, BaseHandler's otherwise.
repo_owner(h) ==
    IF h # BaseHandler /\ handlers[h].own_plugins THEN h ELSE BaseHandler

\* The class object as attribute lookup sees it: a handler type whose body
\* assigns no base_endpoint reads BaseHandler's.
class_of(h) ==
    IF h = BaseHandler
    THEN [NoClass EXCEPT !.declared = TRUE, !.cors_enabled = TRUE,
                         !.base_endpoint = base_class.base_endpoint]
    ELSE IF handlers[h].base_endpoint = None
         THEN [handlers[h] EXCEPT
                 !.base_endpoint = base_class.base_endpoint]
         ELSE handlers[h]

\* The classes that exist: BaseHandler and the declared handler types.
class_exists(h) == IF h = BaseHandler THEN TRUE ELSE handlers[h].declared

\* The number the next call that builds callables stamps them with.
next_serial == n_regs + n_mounts + 1

\* `class h(BaseHandler): body`
DeclareClass(h, body) ==
    /\ ~handlers[h].declared
    /\ LET r == declare_class(body)
       IN  /\ handlers' = [handlers EXCEPT ![h] = r.cls]
           /\ error' = r.raised
    /\ UNCHANGED <<router_routes, base_class, n_mounts, mounted,
                   page, cls_cache,
                   plugins, global_plugins, routes, output, add_log, n_regs,
                   instances, objects, calls, pc, local>>

\* h.add_plugin(plugin_callables, global_scope)
AddPlugin(h, plugin_callables, global_scope) ==
    /\ handlers[h].declared
    /\ Len(add_log) < MaxAdds
    /\ IF global_scope
       THEN /\ global_plugins' =
                 [global_plugins EXCEPT ![repo_owner(h)] =
                     add_plugin(@, cls_cache, PluginBases,
                                plugin_callables).repo]
            /\ cls_cache' = add_plugin(global_plugins[repo_owner(h)],
                                       cls_cache, PluginBases,
                                       plugin_callables).cache
            /\ UNCHANGED plugins
       ELSE /\ plugins' = [plugins EXCEPT ![repo_owner(h)] =
                              add_plugin(@, cls_cache, PluginBases,
                                         plugin_callables).repo]
            /\ cls_cache' = add_plugin(plugins[repo_owner(h)],
                                       cls_cache, PluginBases,
                                       plugin_callables).cache
            /\ UNCHANGED global_plugins
    /\ add_log' = Append(add_log, [cls |-> h, global_scope |-> global_scope,
                                   plugin_callables |-> plugin_callables])
    /\ error' = NoError
    /\ UNCHANGED <<router_routes, base_class, n_mounts, mounted, page,
                   handlers, routes, output, n_regs,
                   instances, objects, calls, pc, local>>

\* h.register_app(app)
RegisterApp(h, app) ==
    /\ class_exists(h)
    /\ n_regs < MaxRegs
    /\ LET r == register_app(h, class_of(h), plugins[repo_owner(h)],
                             global_plugins[repo_owner(h)])
       IN  /\ routes' = [routes EXCEPT ![app] =
                            @ \o new_objects(r.regs, next_serial)]
           /\ error' = r.raised
    /\ n_regs' = n_regs + 1
    /\ UNCHANGED <<router_routes, base_class, n_mounts, mounted,
                   page, cls_cache,
                   handlers, plugins, global_plugins, output, add_log,
                   instances, objects, calls, pc, local>>

\* The host calls the i-th callback registered on app.
Invoke(app, i) ==
    /\ i \in DOMAIN routes[app]
    /\ output' = invoke(routes[app][i].callback)
    /\ error' = NoError
    /\ UNCHANGED <<router_routes, base_class, n_mounts, mounted,
                   page, cls_cache,
                   handlers, plugins, global_plugins, routes, add_log, n_regs,
                   instances, objects, calls, pc, local>>

\* Router.register_handler(callable_obj, entrypoint, methods)
RegisterHandler(callable_obj, entrypoint, methods) ==
    /\ Len(router_routes) < MaxHandlers
    /\ callable_obj.type = "class" => class_exists(callable_obj.name)
    /\ LET id == Cardinality({i \in 1..Len(router_routes) :
                                router_routes[i].kind = "route"}) + 1
           r == wrap_callable(entrypoint, methods, callable_obj, id)
       IN  /\ IF r.sets = "none"
              THEN UNCHANGED <<handlers, base_class>>
              ELSE IF r.sets = BaseHandler
              THEN /\ base_class' = [base_class EXCEPT
                                        !.base_endpoint = entrypoint]
                   /\ UNCHANGED handlers
              ELSE /\ handlers' = [handlers EXCEPT
                                      ![r.sets].base_endpoint = entrypoint]
                   /\ UNCHANGED base_class
           /\ IF r.raised # NoError
              THEN /\ error' = r.raised
                   /\ UNCHANGED router_routes
              ELSE IF is_valid(r.obj)
              THEN /\ router_routes' = set_add(router_routes, r.obj)
                   /\ error' = NoError
              ELSE /\ error' = raise("RouteError", <<methods, entrypoint>>,
                                     "register_handler")
                   /\ UNCHANGED router_routes
    /\ UNCHANGED <<plugins, global_plugins, routes, output, add_log, n_regs,
                   instances, objects, calls, pc, local, n_mounts, mounted,
                   cls_cache, page>>

\* endpoint.register_app(app) for one object of Router._routes: the calls
\* made to the host's route() and the exception raised.
endpoint_register_app(endpoint) ==
    IF endpoint.kind = "route"
    THEN [raised |-> NoError, regs |-> <<route_register_app(endpoint)>>]
    ELSE register_app(endpoint.cls, class_of(endpoint.cls),
                      plugins[repo_owner(endpoint.cls)],
                      global_plugins[repo_owner(endpoint.cls)])

\* One step of a loop after another: the first exception ends the loop,
\* and what was registered before it stays.
and_then(r, rest) ==
    IF r.raised # NoError THEN r
    ELSE [raised |-> rest.raised, regs |-> r.regs \o rest.regs]

\* The loop of Router.mount over the objects in the order given.
RECURSIVE mount(_)
mount(endpoints) ==
    IF endpoints = <<>> THEN [raised |-> NoError, regs |-> <<>>]
    ELSE and_then(endpoint_register_app(endpoints[1]),
                  mount(Tail(endpoints)))

\* The host after a call that made the registrations r.regs and raised
\* r.raised.
host_registers(app, r) ==
    /\ routes' = [routes EXCEPT ![app] =
                     @ \o new_objects(r.regs, next_serial)]
    /\ error' = r.raised

\* Router.mount(app).  The set is iterated in the order router_routes
\* holds it in, which is the order of the register_handler calls; these
\* come in every order, so that the objects are met in every order.
Mount(app) ==
    /\ n_mounts < MaxMounts
    /\ host_registers(app, mount(router_routes))
    /\ n_mounts' = n_mounts + 1
    /\ mounted' = [mounted EXCEPT ![app] = router_routes]
    /\ UNCHANGED <<handlers, plugins, global_plugins, output, add_log, n_regs,
                   instances, objects, calls, pc, local, router_routes,
                   base_class, cls_cache, page>>

\* P.func_name is read on the plugin class P.
ReadFuncName(P) ==
    /\ cls_cache' = cached_classproperty(cls_cache, PluginBases, P).cache
    /\ cls_cache' # cls_cache
    /\ error' = NoError
    /\ UNCHANGED <<handlers, plugins, global_plugins, routes, output, add_log,
                   n_regs, instances, objects, calls, pc, local,
                   router_routes, base_class, n_mounts, mounted, page>>

\* paginator(limit, offset, record_count, base_uri) is called and returns.
Paginate ==
    /\ ~page.returned
    /\ page' = [page EXCEPT
                  !.returned = TRUE,
                  !.result = paginator(page.limit, page.offset,
                                       page.record_count, page.base_uri)]
    /\ UNCHANGED <<handlers, plugins, global_plugins, routes, error, output,
                   add_log, n_regs, instances, objects, calls, pc, local,
                   router_routes, base_class, n_mounts, mounted, cls_cache>>

\* h(*args), run to its end without interruption.
Construct(h, args) ==
    /\ handlers[h].declared
    /\ Len(calls) < MaxCalls
    /\ LET r == IF in_cache(instances, h)
                THEN [raised |-> NoError, obj |-> instances[h]]
                ELSE construct(h, handlers[h], args, objects)
       IN  /\ IF in_cache(instances, h) \/ r.raised # NoError
              THEN UNCHANGED <<instances, objects>>
              ELSE /\ instances' = [instances EXCEPT ![h] = r.obj]
                   /\ objects' = objects \cup {object(r.obj, h, args)}
           /\ error' = r.raised
           /\ calls' = Append(calls, [cls |-> h, args |-> args,
                                      result |-> r.obj])
    /\ UNCHANGED <<router_routes, base_class, n_mounts, mounted,
                   page, cls_cache,
                   handlers, plugins, global_plugins, routes, output, add_log,
                   n_regs, pc, local>>

\* Thread t enters h(*args).
Start(t, h, args) ==
    /\ pc[t] = "idle"
    /\ handlers[h].declared
    /\ pc' = [pc EXCEPT ![t] = "check"]
    /\ local' = [local EXCEPT ![t] = [NoCall EXCEPT !.cls = h, !.args = args]]
    /\ UNCHANGED <<router_routes, base_class, n_mounts, mounted,
                   page, cls_cache,
                   handlers, plugins, global_plugins, routes, error, output,
                   add_log, n_regs, instances, objects, calls>>

\* cbv.py:220  if cls not in cls._instances
Check(t) ==
    /\ pc[t] = "check"
    /\ pc' = [pc EXCEPT ![t] = IF in_cache(instances, local[t].cls)
                               THEN "return" ELSE "construct"]
    /\ UNCHANGED <<router_routes, base_class, n_mounts, mounted,
                   page, cls_cache,
                   handlers, plugins, global_plugins, routes, error, output,
                   add_log, n_regs, instances, objects, calls, local>>

\* cbv.py:221-223  super(HandlerMeta, cls).__call__(*args)
Create(t) ==
    /\ pc[t] = "construct"
    /\ LET h == local[t].cls
           r == construct(h, handlers[h], local[t].args, objects)
       IN  IF r.raised # NoError
           THEN /\ pc' = [pc EXCEPT ![t] = "done"]
                /\ error' = r.raised
                /\ calls' = Append(calls, [cls |-> h, args |-> local[t].args,
                                           result |-> NoInstance])
                /\ UNCHANGED <<objects, local>>
           ELSE /\ pc' = [pc EXCEPT ![t] = "store"]
                /\ objects' = objects \cup {object(r.obj, h, local[t].args)}
                /\ local' = [local EXCEPT ![t].obj = r.obj]
                /\ UNCHANGED <<error, calls>>
    /\ UNCHANGED <<router_routes, base_class, n_mounts, mounted,
                   page, cls_cache,
                   handlers, plugins, global_plugins, routes, output,
                   add_log, n_regs, instances>>

\* cbv.py:221  cls._instances[cls] = <the new object>
Store(t) ==
    /\ pc[t] = "store"
    /\ instances' = [instances EXCEPT ![local[t].cls] = local[t].obj]
    /\ pc' = [pc EXCEPT ![t] = "return"]
    /\ UNCHANGED <<router_routes, base_class, n_mounts, mounted,
                   page, cls_cache,
                   handlers, plugins, global_plugins, routes, error, output,
                   add_log, n_regs, objects, calls, local>>

\* cbv.py:224  return cls._instances[cls]
Return(t) ==
    /\ pc[t] = "return"
    /\ local' = [local EXCEPT ![t].result = instances[local[t].cls]]
    /\ calls' = Append(calls, [cls |-> local[t].cls, args |-> local[t].args,
                               result |-> instances[local[t].cls]])
    /\ pc' = [pc EXCEPT ![t] = "done"]
    /\ error' = NoError
    /\ UNCHANGED <<router_routes, base_class, n_mounts, mounted,
                   page, cls_cache,
                   handlers, plugins, global_plugins, routes, output,
                   add_log, n_regs, instances, objects>>

----------------------------------------------------------------------------
(* Specifications *)

\* Declaring ModelHandler, adding plugins, registering, invoking.
DeclareModel == \E body \in ModelBodies : DeclareClass("ModelHandler", body)

AddPlugins ==
    \E h \in HandlerTypes, ps \in PluginLists, g \in BOOLEAN :
        AddPlugin(h, ps, g)

Register == \E h \in HandlerTypes, app \in Apps : RegisterApp(h, app)

Invocation == \E app \in Apps : \E i \in DOMAIN routes[app] : Invoke(app, i)

Next == DeclareModel \/ AddPlugins \/ Register \/ Invocation

Spec == Init /\ [][Next]_vars

\* Route expansion: a handler type with one operation is declared and
\* registered.
DeclareRoutes == \E body \in RouteBodies : DeclareClass("ModelHandler", body)

NextRoutes == DeclareRoutes \/ Register

SpecRoutes == Init /\ [][NextRoutes]_vars

\* Declaration: handler types that tag a method with route_method are
\* declared and registered.
DeclareVerbs ==
    \E h \in HandlerTypes, body \in VerbBodies : DeclareClass(h, body)

NextDeclare == DeclareVerbs \/ Register

SpecDeclare == Init /\ [][NextDeclare]_vars

\* Plugin maps: handler types that own their plugin dicts or inherit
\* BaseHandler's add plugins and are registered.
DeclareOwners ==
    \E h \in HandlerTypes, body \in OwnerBodies : DeclareClass(h, body)

AddOwnerPlugins ==
    \E h \in HandlerTypes, ps \in OwnerPluginLists, g \in BOOLEAN :
        AddPlugin(h, ps, g)

NextPlugins == DeclareOwners \/ AddOwnerPlugins \/ Register

SpecPlugins == Init /\ [][NextPlugins]_vars

\* The Router: MockHandler is declared, handlers are registered on the
\* Router, the Router is mounted, and BaseHandler is registered directly.
DeclareMock == \E body \in MockBodies : DeclareClass("ModelHandler", body)

RegisterHandlers ==
    \E c \in RegisterCalls :
        RegisterHandler(c.callable_obj, c.entrypoint, c.methods)

Mounts == \E app \in Apps : Mount(app)

RegisterBase == \E app \in Apps : RegisterApp(BaseHandler, app)

NextRouter == DeclareMock \/ RegisterHandlers \/ Mounts \/ RegisterBase

SpecRouter == Init /\ [][NextRouter]_vars

\* The singleton, one construction at a time.
\* Plugin names: plugin classes are added to handler types, and func_name
\* is read on plugin classes.
AddClassPlugins ==
    \E ps \in ClassPluginLists, g \in BOOLEAN :
        AddPlugin("ModelHandler", ps, g)

ReadFuncNames == \E P \in PluginClasses : ReadFuncName(P)

NextNames == DeclareMock \/ AddClassPlugins \/ ReadFuncNames

SpecNames == Init /\ [][NextNames]_vars

\* The paginator: one call with the arguments drawn.
NextPaginator == Paginate

SpecPaginator == InitPaginator /\ [][NextPaginator]_vars

DeclareSingleton ==
    \E h \in HandlerTypes, body \in SingletonBodies : DeclareClass(h, body)

Constructions ==
    \E h \in HandlerTypes, args \in ConstructArgs : Construct(h, args)

NextSingleton == DeclareSingleton \/ Constructions

SpecSingleton == Init /\ [][NextSingleton]_vars

\* The singleton, constructed by threads that interleave between the lines
\* of HandlerMeta.__call__.
NextThreads ==
    \/ DeclareSingleton
    \/ \E t \in Threads, h \in HandlerTypes, args \in ConstructArgs :
          Start(t, h, args)
    \/ \E t \in Threads : Check(t)
    \/ \E t \in Threads : Create(t)
    \/ \E t \in Threads : Store(t)
    \/ \E t \in Threads : Return(t)

SpecThreads == Init /\ [][NextThreads]_vars

----------------------------------------------------------------------------
(* The singleton *)

\* The constructions of handler type h that returned an instance.
Returned(h) ==
    {i \in DOMAIN calls : calls[i].cls = h /\ calls[i].result # NoInstance}

\* The instances of handler type h ever constructed.
InstancesOf(h) == {o \in objects : o.cls = h}

\* C1: any two constructions of a handler type return the identical
\* instance, whatever their arguments and whatever other types are
\* constructed in between, and every instance ever constructed is the one
\* the cache holds for its type: at most one per handler type.
SingletonInvariant ==
    \A h \in HandlerTypes :
        /\ \A i, j \in Returned(h) : calls[i].result = calls[j].result
        /\ \A o \in InstancesOf(h) : instances[h] = o.id
        /\ Cardinality(InstancesOf(h)) <= 1

\* Two constructions of one type with different arguments return the same
\* instance, with a construction of another type between them.
SingletonWitness ==
    \E i, k, j \in DOMAIN calls :
        /\ i < k /\ k < j
        /\ calls[i].cls = calls[j].cls /\ calls[k].cls # calls[i].cls
        /\ calls[i].args # calls[j].args
        /\ calls[i].result # NoInstance
        /\ calls[j].result = calls[i].result
        /\ calls[k].result # NoInstance

\* C2: under every interleaving of two threads' first construction of a
\* handler type exactly one instance is constructed, and both callers
\* receive it.
ConcurrentFirstConstruction ==
    \A h \in HandlerTypes :
        /\ Cardinality(InstancesOf(h)) <= 1
        /\ \A i, j \in Returned(h) : calls[i].result = calls[j].result

----------------------------------------------------------------------------
(* Declaration *)

\* The verbs the package supports.
SupportedVerbs == {<<"G","E","T">>, <<"P","U","T">>, <<"P","O","S","T">>,
                   <<"D","E","L","E","T","E">>, <<"P","A","T","C","H">>,
                   <<"O","P","T","I","O","N","S">>}

\* A class body tags some method, through route_method, with a verb name
\* that is none of the supported ones in whatever case.
TagsUnsupportedVerb(body) ==
    \E i \in 1..Len(body.decls) :
        /\ body.decls[i].verb # None
        /\ upper(body.decls[i].verb) \notin SupportedVerbs

\* No host application holds a route of handler type h.
NoRouteOf(h) ==
    \A app \in Apps : \A i \in DOMAIN routes[app] :
        routes[app][i].callback.cls # h

\* C3: declaring a handler type that tags a method, through route_method,
\* with a verb name outside the supported set, compared case-insensitively,
\* raises HandlerHTTPMethodError in the declaration itself: no class is
\* made, and no host application holds or gains a route of it.
UnsupportedVerbFailsAtDeclaration ==
    [][\A h \in HandlerTypes : \A body \in VerbBodies :
          (TagsUnsupportedVerb(body) /\ DeclareClass(h, body))
          => /\ error'.type = "HandlerHTTPMethodError"
             /\ error'.op = "route_method"
             /\ ~handlers'[h].declared
             /\ routes' = routes
             /\ NoRouteOf(h)']_vars

\* A declaration has failed on the verb name PORT: the type is not
\* declared and has no route, while another type, tagged with a supported
\* verb in mixed case, is registered.
UnsupportedVerbWitness ==
    /\ error.type = "HandlerHTTPMethodError"
    /\ error.args = <<(<<"P","O","R","T">>)>>
    /\ \E h, g \in HandlerTypes :
          /\ ~handlers[h].declared /\ NoRouteOf(h)
          /\ handlers[g].declared /\ ~NoRouteOf(g)
          /\ \E app \in Apps : \E i \in DOMAIN routes[app] :
                routes[app][i].method = <<(<<"P","A","T","C","H">>)>>

----------------------------------------------------------------------------
(* Route expansion *)

\* The registrations of the operation `name` of handler type h on app.
OpRegs(app, h, name) ==
    SelectSeq(routes[app],
              LAMBDA r : /\ r.callback.kind = "method"
                         /\ r.callback.cls = h
                         /\ r.callback.name = name)

\* Their patterns, in the order register_app made them.
OpRules(app, h, name) ==
    LET regs == OpRegs(app, h, name)
    IN  [i \in 1..Len(regs) |-> regs[i].rule]

\* The operations of handler type h: the members register_app registers.
Operations(h) ==
    {handlers[h].members[i] : i \in
        {j \in 1..Len(handlers[h].members) :
            /\ handlers[h].members[j].bound
            /\ check_http_member(handlers[h].members[j])}}

\* The path segments of a pattern: what stands between its slashes.
RECURSIVE segments(_)
segments(rule) ==
    IF rule = <<>> THEN <<>>
    ELSE IF rule[1] = "/" THEN segments(Tail(rule))
    ELSE LET stops == {i \in 1..Len(rule) : rule[i] = "/"}
             n == IF stops = {} THEN Len(rule)
                  ELSE (CHOOSE i \in stops : \A j \in stops : i <= j) - 1
         IN  <<SubSeq(rule, 1, n)>> \o
             segments(SubSeq(rule, n + 1, Len(rule)))

\* The parameters a pattern has a placeholder for.
Placeholders(rule) ==
    {Tail(seg) : seg \in
        {segments(rule)[i] : i \in
            {j \in 1..Len(segments(rule)) :
                /\ Len(segments(rule)[j]) > 1
                /\ segments(rule)[j][1] = ":"}}}

\* The names of the parameters of `params` with default None, in declared
\* order.
NoneDefaulted(params) ==
    LET kept == SelectSeq(params, LAMBDA p : p.default = DefaultNone)
    IN  [i \in 1..Len(kept) |-> kept[i].name]

\* C4: an operation with k nullable parameters is registered under exactly
\* k+1 patterns, each pattern after the first being the previous one
\* extended by one more path segment: the next nullable parameter in
\* declared order.
IncrementalPatterns ==
    \A app \in Apps : \A h \in HandlerTypes : \A m \in Operations(h) :
        LET rules == OpRules(app, h, m.name)
            nullable == NoneDefaulted(m.params)
        IN  (n_regs = 1 /\ error = NoError)
            => /\ Len(rules) = Len(nullable) + 1
               /\ \A i \in 1..Len(nullable) :
                     rules[i + 1] = rules[i] \o <<"/", ":">> \o nullable[i]

\* A parameter is classified fixed when the first pattern of the operation,
\* and so every pattern, has a placeholder for it; nullable when only
\* later patterns have one.
ClassifiedFixed(rules, p) ==
    \A i \in 1..Len(rules) : p.name \in Placeholders(rules[i])

ClassifiedNullable(rules, p) ==
    /\ p.name \notin Placeholders(rules[1])
    /\ \E i \in 1..Len(rules) : p.name \in Placeholders(rules[i])

\* C5 as claimed: a parameter is fixed if and only if it has no default
\* value, nullable if and only if it has one, whatever the value.
FixedIffNoDefault ==
    \A app \in Apps : \A h \in HandlerTypes : \A m \in Operations(h) :
        LET rules == OpRules(app, h, m.name)
        IN  rules # <<>>
            => \A i \in 1..Len(m.params) :
                  /\ ClassifiedFixed(rules, m.params[i])
                        <=> m.params[i].default = empty
                  /\ ClassifiedNullable(rules, m.params[i])
                        <=> m.params[i].default # empty

\* C5: a parameter is fixed if and only if its default is not None (it has
\* no default, or a default other than None), nullable if and only if its
\* default is None.
FixedIffNotNone ==
    \A app \in Apps : \A h \in HandlerTypes : \A m \in Operations(h) :
        LET rules == OpRules(app, h, m.name)
        IN  rules # <<>>
            => \A i \in 1..Len(m.params) :
                  /\ ClassifiedFixed(rules, m.params[i])
                        <=> m.params[i].default # DefaultNone
                  /\ ClassifiedNullable(rules, m.params[i])
                        <=> m.params[i].default = DefaultNone

\* An operation is registered with a parameter without default, one with a
\* default other than None (both in every pattern) and one with default
\* None (in a later pattern only).
FixedIffNotNoneWitness ==
    \E app \in Apps : \E h \in HandlerTypes : \E m \in Operations(h) :
        LET rules == OpRules(app, h, m.name)
        IN  /\ rules # <<>>
            /\ \E i, j, k \in 1..Len(m.params) :
                  /\ m.params[i].default = empty
                  /\ m.params[j].default \notin {empty, DefaultNone}
                  /\ m.params[k].default = DefaultNone
                  /\ ClassifiedFixed(rules, m.params[i])
                  /\ ClassifiedFixed(rules, m.params[j])
                  /\ ClassifiedNullable(rules, m.params[k])

\* C6: the operation get(self, uid=None) of a handler type with base path
\* /resource is registered under exactly /resource and /resource/:uid.
CollectionAndItemPatterns ==
    \A app \in Apps : \A h \in HandlerTypes : \A m \in Operations(h) :
        (/\ n_regs = 1 /\ error = NoError
         /\ handlers[h].base_endpoint = s_resource
         /\ m.name = s_get
         /\ m.params = <<[name |-> s_uid, default |-> DefaultNone]>>)
        => OpRules(app, h, m.name) =
              <<s_resource, s_resource \o <<"/", ":">> \o s_uid>>

----------------------------------------------------------------------------
(* The plugin pipeline *)

\* The keys under which add_plugin calls filed callables in the map of
\* `owner` for the scope, in call order (and list order within a call).
RECURSIVE AddedEntries(_, _, _)
AddedEntries(log, owner, global_scope) ==
    IF log = <<>> THEN <<>>
    ELSE (IF /\ repo_owner(log[1].cls) = owner
             /\ log[1].global_scope = global_scope
          THEN [i \in 1..Len(log[1].plugin_callables) |->
                  [key |-> plugin_key(log[1].plugin_callables[i]),
                   value |-> log[1].plugin_callables[i]]]
          ELSE <<>>)
         \o AddedEntries(Tail(log), owner, global_scope)

\* Key k1 was first added before key k2.
AddedBefore(entries, k1, k2) ==
    \E i \in 1..Len(entries) :
        /\ entries[i].key = k1
        /\ \A j \in 1..i : entries[j].key # k2

\* The callables the history leaves in a map: one per key, in the order
\* the keys were first added, each key with the callable added last.
LastAdded(entries) ==
    LET firsts == {i \in 1..Len(entries) :
                      \A j \in 1..(i - 1) : entries[j].key # entries[i].key}
        first_seq == SelectSeq([i \in 1..Len(entries) |->
                                   [at |-> i, key |-> entries[i].key]],
                               LAMBDA e : e.at \in firsts)
    IN  [n \in 1..Len(first_seq) |->
            entries[CHOOSE i \in 1..Len(entries) :
                       /\ entries[i].key = first_seq[n].key
                       /\ \A j \in (i + 1)..Len(entries) :
                             entries[j].key # first_seq[n].key].value]

\* The registrations of operations (not the OPTIONS routes) on app.
MethodRegs(app) ==
    SelectSeq(routes[app], LAMBDA r : r.callback.kind = "method")

\* The member of handler type h named `name`.
MemberOf(h, name) ==
    handlers[h].members[CHOOSE i \in 1..Len(handlers[h].members) :
                            handlers[h].members[i].name = name]

\* Attribute a1 was set on the callable before attribute a2.
TaggedBefore(member, a1, a2) ==
    \E i, j \in 1..Len(member.attrs) :
        i < j /\ member.attrs[i] = a1 /\ member.attrs[j] = a2

\* C7 as claimed: the opt-in plugins applied to an operation are applied in
\* the order in which their tags were declared on it.
OptInAppliedInTagOrder ==
    \A app \in Apps : \A n \in DOMAIN MethodRegs(app) :
        LET cb == MethodRegs(app)[n].callback
            w == cb.wrappers
        IN  \A i, j \in DOMAIN w :
               (i < j /\ w[i].scope = "plugins" /\ w[j].scope = "plugins")
               => TaggedBefore(MemberOf(cb.cls, cb.name),
                               plugin_key(w[i].plugin),
                               plugin_key(w[j].plugin))

\* C7: the opt-in plugins applied to an operation are applied in the order
\* in which their names were first added to the opt-in map, whatever the
\* order in which the tags were declared.
OptInAppliedInAddOrder ==
    \A app \in Apps : \A n \in DOMAIN MethodRegs(app) :
        LET cb == MethodRegs(app)[n].callback
            w == cb.wrappers
            added == AddedEntries(add_log, repo_owner(cb.cls), FALSE)
        IN  \A i, j \in DOMAIN w :
               (i < j /\ w[i].scope = "plugins" /\ w[j].scope = "plugins")
               => AddedBefore(added, plugin_key(w[i].plugin),
                              plugin_key(w[j].plugin))

\* An operation is wrapped by two opt-in plugins, the inner one tagged on
\* it after the outer one.
OptInAppliedInAddOrderWitness ==
    \E app \in Apps : \E n \in DOMAIN MethodRegs(app) :
        LET cb == MethodRegs(app)[n].callback
            w == cb.wrappers
        IN  \E i, j \in DOMAIN w :
               /\ i < j /\ w[i].scope = "plugins" /\ w[j].scope = "plugins"
               /\ TaggedBefore(MemberOf(cb.cls, cb.name),
                               plugin_key(w[j].plugin),
                               plugin_key(w[i].plugin))

\* The registrations a step adds to app.
NewRegs(app) ==
    [i \in 1..(Len(routes'[app]) - Len(routes[app])) |->
        routes'[app][Len(routes[app]) + i]]

\* C8: register_app applies every global plugin to an operation after all
\* opt-in plugins tagged on it: the callable handed to the host has the
\* global plugins as its outermost wrappers, in the order their names were
\* added to the global map.
GlobalPluginsOutermost ==
    [][\A h \in HandlerTypes : \A app \in Apps :
          (n_regs' # n_regs /\ RegisterApp(h, app))
          => \A n \in DOMAIN NewRegs(app) :
                LET cb == NewRegs(app)[n].callback
                    w == cb.wrappers
                    globals == LastAdded(
                        AddedEntries(add_log, repo_owner(h), TRUE))
                    inner == Len(w) - Len(globals)
                IN  cb.kind = "method"
                    => /\ inner >= 0
                       /\ \A i \in 1..inner : w[i].scope = "plugins"
                       /\ \A i \in 1..Len(globals) :
                             w[inner + i] = [plugin |-> globals[i],
                                             scope |-> "global_plugins"]
      ]_vars

\* An operation is registered with an opt-in plugin inside two global ones.
GlobalPluginsOutermostWitness ==
    \E app \in Apps : \E n \in DOMAIN MethodRegs(app) :
        LET w == MethodRegs(app)[n].callback.wrappers
        IN  /\ Len(w) = 3
            /\ w[1].scope = "plugins"
            /\ w[2].scope = "global_plugins"
            /\ w[3].scope = "global_plugins"
            /\ w[2].plugin # w[3].plugin

\* C9 as claimed: on every invocation the side effect of a global plugin B
\* is observed after the side effect of an opt-in plugin A wrapping the
\* same operation.
GlobalObservedAfterOptIn ==
    \A i, j \in DOMAIN output :
        (output[i].scope = "plugins" /\ output[j].scope = "global_plugins")
        => i < j

\* C9: on every invocation the side effect of a global plugin B is
\* observed before the side effect of an opt-in plugin A wrapping the same
\* operation, and both before the operation runs: B is the outer wrapper,
\* and a wrapper acts before it calls what it wraps.
GlobalObservedBeforeOptIn ==
    \A i, j \in DOMAIN output :
        /\ (output[i].scope = "plugins" /\ output[j].scope = "global_plugins")
              => j < i
        /\ (output[i].plugin = HandlerBody /\ output[j].plugin # HandlerBody)
              => j < i

\* An invocation went through a global and an opt-in plugin.
GlobalObservedBeforeOptInWitness ==
    \E i, j \in DOMAIN output :
        /\ output[i].scope = "plugins" /\ output[j].scope = "global_plugins"
        /\ output[Len(output)].plugin = HandlerBody

\* C10: a TypeError that a plugin, opt-in or global, raises while wrapping
\* an operation leaves register_app as a HandlerPluginError carrying the
\* TypeError's arguments, never as the TypeError itself.
PluginErrorsTranslated ==
    (error.op = "register_app" /\ error.type # "HandlerError")
    => /\ error.type = "HandlerPluginError"
       /\ \E p \in PluginCallables : p.raises /\ error.args = <<p.raise_args>>

----------------------------------------------------------------------------
(* Plugin maps: ownership and tagging *)

\* The opt-in and global maps a class reads through its attributes.
PluginsOf(o) ==
    IF o = BaseHandler THEN plugins[BaseHandler] ELSE plugins[repo_owner(o)]

GlobalPluginsOf(o) ==
    IF o = BaseHandler THEN global_plugins[BaseHandler]
    ELSE global_plugins[repo_owner(o)]

\* The classes that exist: BaseHandler and the declared handler types.
ExistingClasses ==
    {BaseHandler} \cup {h \in HandlerTypes : handlers[h].declared}

\* C11: add_plugin on handler type H1 changes only H1's maps: for every
\* other class H2 that exists (handler types that did not declare their own
\* maps and BaseHandler included), H2's opt-in map, its global map and the
\* registrations register_app would make for H2 are unchanged.
PluginMapsOwned ==
    [][\A h1 \in HandlerTypes :
         (add_log' # add_log /\ add_log'[Len(add_log')].cls = h1)
         => \A h2 \in ExistingClasses \ {h1} :
              /\ PluginsOf(h2)' = PluginsOf(h2)
              /\ GlobalPluginsOf(h2)' = GlobalPluginsOf(h2)
              /\ register_app(h2, IF h2 = BaseHandler THEN NoClass
                                  ELSE handlers[h2],
                              PluginsOf(h2), GlobalPluginsOf(h2))'
                 = register_app(h2, IF h2 = BaseHandler THEN NoClass
                                    ELSE handlers[h2],
                                PluginsOf(h2), GlobalPluginsOf(h2))]_vars

\* The names plugin_method tagged the operation `name` of h with.
TagsOf(h, name) ==
    LET m == MemberOf(h, name)
    IN  {m.attrs[i] : i \in 1..Len(m.attrs)}

\* The keys of the wrappers of one scope around a registered callback.
WrapperKeys(callback, scope) ==
    {plugin_key(callback.wrappers[i].plugin) :
        i \in {j \in 1..Len(callback.wrappers) :
                  callback.wrappers[j].scope = scope}}

\* C12: at registration an opt-in plugin wraps an operation if and only if
\* plugin_method tagged the operation with the plugin's name, and every
\* global plugin wraps every operation.
OptInIffTagged ==
    [][\A h \in HandlerTypes : \A app \in Apps :
         (n_regs' # n_regs /\ RegisterApp(h, app))
         => \A n \in DOMAIN NewRegs(app) :
              LET cb == NewRegs(app)[n].callback
              IN  cb.kind = "method"
                  => /\ WrapperKeys(cb, "plugins")
                        = {k \in {PluginsOf(h)[i].key :
                                     i \in 1..Len(PluginsOf(h))} :
                             k \in TagsOf(h, cb.name)}
                     /\ WrapperKeys(cb, "global_plugins")
                        = {GlobalPluginsOf(h)[i].key :
                             i \in 1..Len(GlobalPluginsOf(h))}]_vars

----------------------------------------------------------------------------
(* The Router *)

\* C13: register_handler called with an object that is neither a function
\* nor a handler class raises RouteError and leaves the Router's objects,
\* and so its length, as they were.
InvalidHandlerRejected ==
    [][\A c \in RegisterCalls :
         (/\ c.callable_obj.type \notin {"function", "class"}
          /\ n_mounts' = n_mounts /\ n_regs' = n_regs /\ routes' = routes
          /\ RegisterHandler(c.callable_obj, c.entrypoint, c.methods))
         => /\ error'.type = "RouteError"
            /\ router_routes' = router_routes
            /\ Len(router_routes') = Len(router_routes)]_vars

\* The string 'handler' has been refused by a Router that holds a function
\* route, and still holds exactly this one.
InvalidHandlerRejectedWitness ==
    /\ error.type = "RouteError"
    /\ error.args = <<"Invalid handler type.">>
    /\ Len(router_routes) = 1
    /\ router_routes[1].kind = "route"

\* The function routes the Router holds.
FunctionRoutes ==
    SelectSeq(router_routes, LAMBDA e : e.kind = "route")

\* The pattern, the verbs and the callable a function route was registered
\* with.
pattern_of(e) == e.uri[1]
verbs_of(e) == e.methods[1]

SameTriple(e1, e2) ==
    /\ e1.uri = e2.uri /\ e1.methods = e2.methods
    /\ e1.callable_obj = e2.callable_obj

\* The registrations of function routes on a host.
FunctionRegs(app) ==
    SelectSeq(routes[app], LAMBDA r : r.callback.kind = "function")

\* C14: however many times a function route is registered with the same
\* pattern, verbs and callable, the Router holds one entry for the triple,
\* and one mount makes one host registration for it.
DuplicateRouteIgnored ==
    /\ \A i, j \in DOMAIN FunctionRoutes :
          SameTriple(FunctionRoutes[i], FunctionRoutes[j]) => i = j
    /\ \A app \in Apps :
          n_mounts = 1
          => \A i, j \in DOMAIN FunctionRegs(app) :
                (/\ FunctionRegs(app)[i].rule = FunctionRegs(app)[j].rule
                 /\ FunctionRegs(app)[i].callback
                    = FunctionRegs(app)[j].callback)
                => i = j

\* The registrations a host holds, as a set.
RegistrationSet(regs) == {regs[i] : i \in DOMAIN regs}

\* C15: a mount on a host that the same set of entries was mounted on
\* before leaves the host with the set of registrations it had.
MountIdempotent ==
    [][\A app \in Apps :
         (/\ n_mounts' = n_mounts + 1
          /\ mounted[app] = router_routes
          /\ Mount(app))
         => RegistrationSet(routes'[app]) = RegistrationSet(routes[app])]_vars

\* C16: registering BaseHandler itself, through Router.register_handler or
\* through BaseHandler.register_app, raises HandlerError and adds nothing to
\* the Router or to the host.
BaseHandlerRejected ==
    [][/\ \A c \in RegisterCalls :
            (/\ c.callable_obj = handler_class(BaseHandler)
             /\ n_mounts' = n_mounts /\ n_regs' = n_regs /\ routes' = routes
             /\ RegisterHandler(c.callable_obj, c.entrypoint, c.methods))
            => /\ error'.type = "HandlerError"
               /\ router_routes' = router_routes
       /\ \A app \in Apps :
            (n_regs' # n_regs /\ RegisterApp(BaseHandler, app))
            => /\ error'.type = "HandlerError"
               /\ routes' = routes
               /\ router_routes' = router_routes]_vars

\* The OPTIONS routes register_app made by itself for handler type h among
\* the registrations regs.
OptionsRegs(regs, h) ==
    SelectSeq(regs, LAMBDA r : r.callback.kind = "options"
                               /\ r.callback.cls = h)

\* The handler classes the Router holds.
ClassEntries == {router_routes[i].cls : i \in DOMAIN router_routes}

\* C17: a mount that registers handler type h makes exactly two OPTIONS
\* routes of its own for h when cors_enabled is set, one on the base path
\* and one on the base path followed by the wildcard suffix, and none when
\* cors_enabled is not set.
OptionsRoutesIffCors ==
    [][\A app \in Apps : \A h \in HandlerTypes :
         (n_mounts' # n_mounts /\ error' = NoError)
         => LET made == OptionsRegs(NewRegs(app), h)
            IN  IF h \in ClassEntries /\ handlers[h].cors_enabled
                THEN /\ Len(made) = 2
                     /\ made[1].rule = handlers[h].base_endpoint
                     /\ made[2].rule = handlers[h].base_endpoint
                                       \o s_url_wildcard
                     /\ made[1].method = <<s_OPTIONS>>
                     /\ made[2].method = <<s_OPTIONS>>
                ELSE Len(made) = 0]_vars

\* A mount of MockHandler with cors_enabled made the two OPTIONS routes, on
\* /api2 and on /api2/<url:re:.+>.
OptionsRoutesIffCorsWitness ==
    /\ n_mounts = 1 /\ error = NoError
    /\ handlers["ModelHandler"].cors_enabled
    /\ \E app \in Apps :
          LET made == OptionsRegs(routes[app], "ModelHandler")
          IN  /\ Len(made) = 2
              /\ made[1].rule = s_api2
              /\ made[2].rule = s_api2 \o s_url_wildcard

\* The verb an operation is registered under.
VerbOf(member) ==
    IF hasattr(member, s_http_method) THEN member.http_method
    ELSE upper(member.name)

\* C18: the metadata of the OPTIONS routes lists, for every operation of
\* the handler type, the verb of that operation (in either case), also
\* when route_method binds the verb to a method named otherwise.
OptionsListVerbs ==
    \A app \in Apps : \A n \in DOMAIN routes[app] :
        LET r == routes[app][n]
        IN  r.callback.kind = "options"
            => \A m \in {handlers[r.callback.cls].members[i] :
                           i \in DOMAIN handlers[r.callback.cls].members} :
                  \E k \in DOMAIN r.callback.http_methods :
                     upper(r.callback.http_methods[k]) = VerbOf(m)

\* C19: for every function route registered with pattern p and verbs M,
\* a mount calls the host's route() with the pattern p (as the Route holds
\* it) and with M as the accepted verbs, the argument named method as in
\* BaseHandler.register_app, binding the registered callable.
FunctionRouteMounted ==
    \A app \in Apps :
        n_mounts = 1 /\ mounted[app] = router_routes
        => \A i \in {k \in DOMAIN FunctionRoutes :
                       /\ pattern_of(FunctionRoutes[k]) # <<>>
                       /\ verbs_of(FunctionRoutes[k]) # <<>>} :
              LET e == FunctionRoutes[i]
                  calls_made ==
                      {n \in DOMAIN routes[app] :
                          /\ routes[app][n].callback.kind = "function"
                          /\ routes[app][n].callback.name
                             = <<e.callable_obj.name>>
                          /\ routes[app][n].rule = e.uri
                          /\ "method" \in DOMAIN routes[app][n]
                          /\ routes[app][n].method = verbs_of(e)}
              IN  Cardinality(calls_made) >= 1

\* C20: register_handler refuses a function with an empty entrypoint or an
\* empty collection of verbs with RouteError, so that every function route
\* the Router holds has a pattern and a verb.
FunctionRoutesComplete ==
    \A i \in DOMAIN FunctionRoutes :
        /\ pattern_of(FunctionRoutes[i]) # <<>>
        /\ verbs_of(FunctionRoutes[i]) # <<>>

----------------------------------------------------------------------------
(* Base paths *)

\* The string s starts with the string p.
startswith(s, p) == Len(p) <= Len(s) /\ SubSeq(s, 1, Len(p)) = p

\* The registrations among regs that register_app made for handler type h.
ClassRegs(regs, h) ==
    SelectSeq(regs, LAMBDA r : r.callback.kind \in {"method", "options"}
                               /\ r.callback.cls = h)

----------------------------------------------------------------------------
(* Plugin names *)

\* The name the documentation derives for a plugin callable: the snake_case
\* form of a plugin class's own name, a function's own name.
DerivedName(plugin_callable) ==
    IF plugin_callable.kind = "class" THEN func_name(plugin_callable.name)
    ELSE plugin_callable.name

\* The last callable of the list whose derived name is `name`.
LastNamed(plugin_callables, name) ==
    LET is == {i \in 1..Len(plugin_callables) :
                 DerivedName(plugin_callables[i]) = name}
    IN  plugin_callables[CHOOSE i \in is : \A j \in is : j <= i]

has_key(repo, key) == \E k \in 1..Len(repo) : repo[k].key = key

\* C22: add_plugin files each callable given under its derived name, in the
\* map of the scope chosen and in no other; a callable filed under a name
\* the map holds takes the place of the one held, and the map holds one
\* entry for the name.
PluginsStoredUnderDerivedName ==
    [][\A ps \in ClassPluginLists, g \in BOOLEAN :
         (/\ Len(add_log') = Len(add_log) + 1
          /\ AddPlugin("ModelHandler", ps, g))
         => LET o == repo_owner("ModelHandler")
                after == IF g THEN global_plugins'[o] ELSE plugins'[o]
            IN  /\ IF g THEN plugins' = plugins
                         ELSE global_plugins' = global_plugins
                /\ \A i \in 1..Len(ps) :
                      IF has_key(after, DerivedName(ps[i]))
                      THEN dict_get(after, DerivedName(ps[i]))
                           = LastNamed(ps, DerivedName(ps[i]))
                      ELSE FALSE
                /\ \A k1, k2 \in 1..Len(after) :
                      after[k1].key = after[k2].key => k1 = k2]_vars

\* C25: whatever reads of func_name have been made, func_name read on a
\* plugin class, derived from BaseHandlerPlugin directly or through another
\* plugin class, is the snake_case form of the class's own name.
FuncNameIsOwnSnakeCase ==
    \A P \in PluginClasses :
        cached_classproperty(cls_cache, PluginBases, P).value
        = func_name(P.name)

----------------------------------------------------------------------------
(* The paginator *)

\* int(s) of a string of decimal digits.
RECURSIVE int_of(_)
int_of(s) ==
    IF s = <<>> THEN 0
    ELSE int_of(SubSeq(s, 1, Len(s) - 1)) * 10
         + (CHOOSE d \in 0..9 : DecimalDigits[d + 1] = s[Len(s)])

\* The offset a page link carries: the number that follows '&offset='.
OffsetOf(link) ==
    LET i == CHOOSE k \in 1..Len(link) :
                 /\ k + Len(s_offset_eq) - 1 <= Len(link)
                 /\ SubSeq(link, k, k + Len(s_offset_eq) - 1) = s_offset_eq
    IN  int_of(SubSeq(link, i + Len(s_offset_eq), Len(link)))

\* C23: for a positive limit and an offset and a record_count that are not
\* negative, paginator returns a next_page link if and only if
\* limit + offset <= record_count, and a prev_page link if and only if
\* offset >= limit; the next_page link carries offset + limit and the
\* prev_page link carries offset - limit.
PaginatorLinks ==
    page.returned
    => /\ (page.result.next_page # None)
          <=> (page.limit + page.offset <= page.record_count)
       /\ (page.result.prev_page # None) <=> (page.offset >= page.limit)
       /\ page.result.next_page # None
          => OffsetOf(page.result.next_page) = page.offset + page.limit
       /\ page.result.prev_page # None
          => OffsetOf(page.result.prev_page) = page.offset - page.limit

\* paginator has returned both links for a page that ends with the last
\* record, and the next offset has two digits.
PaginatorLinksWitness ==
    /\ page.returned
    /\ page.result.next_page # None /\ page.result.prev_page # None
    /\ page.limit + page.offset = page.record_count
    /\ page.limit + page.offset >= 10

----------------------------------------------------------------------------
(* Tags and the time of registration *)

\* C24: register_app resolves the tags of an operation against the opt-in
\* map as it is when register_app runs: every plugin the map holds then
\* under a name the operation is tagged with wraps the callable registered,
\* though it was added after the operation was declared; and an add_plugin
\* made after register_app leaves the callables registered on the host, and
\* what they do when called, as they were.
TagsResolvedAtRegistration ==
    [][/\ \A h \in HandlerTypes : \A app \in Apps :
            (n_regs' # n_regs /\ RegisterApp(h, app))
            => \A n \in DOMAIN NewRegs(app) :
                  LET cb == NewRegs(app)[n].callback
                      optin == plugins[repo_owner(h)]
                  IN  cb.kind = "method"
                      => \A k \in 1..Len(optin) :
                            optin[k].key \in TagsOf(h, cb.name)
                            => \E i \in 1..Len(cb.wrappers) :
                                  cb.wrappers[i] = [plugin |-> optin[k].value,
                                                    scope |-> "plugins"]
       /\ Len(add_log') # Len(add_log)
          => \A app \in Apps :
                /\ routes'[app] = routes[app]
                /\ \A i \in DOMAIN routes[app] :
                      invoke(routes'[app][i].callback)
                      = invoke(routes[app][i].callback)]_vars

\* An operation is registered wrapped by an opt-in plugin, which was added
\* after the declaration, and the opt-in map holds, under another name the
\* operation is tagged with, a plugin that does not wrap it: one added after
\* register_app.
TagsResolvedAtRegistrationWitness ==
    /\ n_regs = 1 /\ Len(add_log) = 2
    /\ \E app \in Apps : \E n \in DOMAIN MethodRegs(app) :
          LET cb == MethodRegs(app)[n].callback
              optin == plugins[repo_owner(cb.cls)]
          IN  /\ \E i \in 1..Len(cb.wrappers) : cb.wrappers[i].scope = "plugins"
              /\ \E k \in 1..Len(optin) :
                    /\ optin[k].key \in TagsOf(cb.cls, cb.name)
                    /\ \A i \in 1..Len(cb.wrappers) :
                          plugin_key(cb.wrappers[i].plugin) # optin[k].key

----------------------------------------------------------------------------
(* Slashes *)

\* The string holds two slashes in a row.
has_double_slash(rule) ==
    \E i \in 1..(Len(rule) - 1) : rule[i] = "/" /\ rule[i + 1] = "/"

\* C27: no pattern registered on the host for a handler type holds two
\* slashes in a row, whatever the base path, the URL suffix and the
\* parameters of the operation.
PatternsSlashNormalised ==
    \A app \in Apps : \A n \in DOMAIN routes[app] :
        ~has_double_slash(routes[app][n].rule)

----------------------------------------------------------------------------
(* A handler class registered again *)

\* The entries of the Router that are the handler class h.
EntriesOf(entries, h) ==
    SelectSeq(entries, LAMBDA e : e.kind = "class" /\ e.cls = h)

\* C26: after register_handler is called with a handler class, also one the
\* Router holds under another entrypoint, the Router holds one entry for
\* the class and the base path of the class is the entrypoint of this, the
\* latest, call; a mount then registers the routes of the class under this
\* base path and under no other.
LatestEntrypointWins ==
    [][/\ \A c \in RegisterCalls :
            (/\ c.callable_obj.type = "class"
             /\ c.callable_obj.name \in HandlerTypes
             /\ n_mounts' = n_mounts /\ n_regs' = n_regs /\ routes' = routes
             /\ RegisterHandler(c.callable_obj, c.entrypoint, c.methods))
            => /\ Len(EntriesOf(router_routes', c.callable_obj.name)) = 1
               /\ handlers'[c.callable_obj.name].base_endpoint = c.entrypoint
       /\ \A app \in Apps : \A h \in HandlerTypes :
            (n_mounts' # n_mounts /\ h \in ClassEntries /\ error' = NoError)
            => LET made == ClassRegs(NewRegs(app), h)
               IN  /\ Len(made) > 0
                   /\ \A i \in DOMAIN made :
                         /\ startswith(made[i].rule, handlers[h].base_endpoint)
                         /\ \A c \in RegisterCalls :
                               (/\ c.callable_obj = handler_class(h)
                                /\ c.entrypoint # handlers[h].base_endpoint)
                               => ~startswith(made[i].rule, c.entrypoint)]_vars

\* MockHandler was registered on the Router under /mock and mounted, then
\* registered under /api2 and mounted again: the Router holds one entry for
\* it, its base path is /api2, and the routes of the last mount are under
\* /api2.
LatestEntrypointWinsWitness ==
    /\ n_mounts = 2 /\ error = NoError
    /\ Len(EntriesOf(router_routes, "ModelHandler")) = 1
    /\ handlers["ModelHandler"].base_endpoint = s_api2
    /\ \E app \in Apps :
          LET made == ClassRegs(routes[app], "ModelHandler")
          IN  /\ Len(made) > 1
              /\ startswith(made[1].rule, s_mock)
              /\ startswith(made[Len(made)].rule, s_api2)

----------------------------------------------------------------------------
(* A mount that raises *)

\* C28: a mount that raises, on BaseHandler held as an entry or on a plugin
\* that cannot wrap an operation, leaves the host without any registration
\* made by this mount.
MountAllOrNothing ==
    [][\A app \in Apps :
         (n_mounts' # n_mounts /\ error' # NoError)
         => routes'[app] = routes[app]]_vars

====
